---- MODULE Spec2Model ----
(***************************************************************************)
(* A model of the gochess board engine (board.go): the mailbox board, the  *)
(* FEN decoder and encoder, attack computation, SAN resolution and move    *)
(* application; and of the PGN movetext tokenizer and parser.  Text is     *)
(* modelled as a sequence of one-character strings.                        *)
(***************************************************************************)
EXTENDS Integers, Sequences, FiniteSets, TLC

VARIABLES sq, epsq, wksq, bksq, activeMove, lastSAN, MoveWhite, MoveNumber,
          fen, ret, hist, MovesText, text, token, calls

vars == <<sq, epsq, wksq, bksq, activeMove, lastSAN, MoveWhite, MoveNumber,
          fen, ret, hist, MovesText, text, token, calls>>

(* ---------------------------------------------------------------- bounds *)

\* the number of successful MakeMove calls explored from a start position
MaxPly == 4

\* the number of words of a generated movetext
MaxWords == 4

(* ------------------------------------------------------------- constants *)

cWHITE == 0
cBLACK == 1

pPAWN == 1
pKNIGHT == 2
pBISHOP == 3
pROOK == 4
pQUEEN == 5
pKING == 6

\* the off-board sentinel of the mailbox
OFFBOARD == 255

\* the width of the uint8 fields
Uint8Mod == 256

dKNIGHT == <<21, 12, 8, 19, -21, -12, -8, -19>>
dKING == <<9, 11, -9, -11, 1, 10, -1, -10>>
dDIAGONAL == <<9, 11, -9, -11>>
dSTRAIGHT == <<1, 10, -1, -10>>

Files == <<"a", "b", "c", "d", "e", "f", "g", "h">>
Ranks == <<"1", "2", "3", "4", "5", "6", "7", "8">>
Digits == <<"0", "1", "2", "3", "4", "5", "6", "7", "8", "9">>
PieceLetters == <<"P", "N", "B", "R", "Q", "K">>
WhiteLetters == <<"_", "P", "N", "B", "R", "Q", "K">>
BlackLetters == <<"_", "p", "n", "b", "r", "q", "k">>

fINITIAL ==
  <<"r","n","b","q","k","b","n","r","/","p","p","p","p","p","p","p","p",
    "/","/","/","/","/","P","P","P","P","P","P","P","P","/",
    "R","N","B","Q","K","B","N","R"," ","w"," ","K","Q","k","q"," ","-",
    " ","0"," ","1">>

(* ------------------------------------------------------------ text tools *)

Range(s) == {s[i] : i \in 1..Len(s)}

Min(S) == CHOOSE x \in S : \A y \in S : x <= y

Max(S) == CHOOSE x \in S : \A y \in S : x >= y

\* strings.Index for a one-character needle in a sequence of characters:
\* the 0-based position of the first occurrence, -1 when absent
IndexOf(s, c) ==
  LET hits == {i \in 1..Len(s) : s[i] = c}
  IN IF hits = {} THEN -1 ELSE Min(hits) - 1

\* strings.Index(hay, needle) >= 0
Contains(hay, needle) ==
  \E i \in 0..(Len(hay) - Len(needle)) :
    \A k \in 1..Len(needle) : hay[i + k] = needle[k]

HasPrefix(s, p) ==
  /\ Len(s) >= Len(p)
  /\ \A k \in 1..Len(p) : s[k] = p[k]

RECURSIVE Concat(_)
Concat(ss) == IF ss = <<>> THEN <<>> ELSE Head(ss) \o Concat(Tail(ss))

RECURSIVE Repeat(_, _)
Repeat(c, n) == IF n <= 0 THEN <<>> ELSE <<c>> \o Repeat(c, n - 1)

IsSpace(c) == c \in {" ", "\t", "\n", "\r"}

\* strings.Fields: the maximal runs of non-space characters, in order
RECURSIVE FieldsFrom(_, _, _)
FieldsFrom(s, i, cur) ==
  IF i > Len(s)
  THEN IF cur = <<>> THEN <<>> ELSE <<cur>>
  ELSE IF IsSpace(s[i])
       THEN (IF cur = <<>> THEN <<>> ELSE <<cur>>) \o FieldsFrom(s, i + 1, <<>>)
       ELSE FieldsFrom(s, i + 1, Append(cur, s[i]))

Fields(s) == FieldsFrom(s, 1, <<>>)

\* strings.TrimSpace
RECURSIVE TrimLeft(_)
TrimLeft(s) ==
  IF s # <<>> /\ IsSpace(Head(s)) THEN TrimLeft(Tail(s)) ELSE s

RECURSIVE TrimRight(_)
TrimRight(s) ==
  IF s # <<>> /\ IsSpace(s[Len(s)])
  THEN TrimRight(SubSeq(s, 1, Len(s) - 1))
  ELSE s

TrimSpace(s) == TrimRight(TrimLeft(s))

\* strings.Split(s, sep) for a one-character separator
RECURSIVE SplitFrom(_, _, _, _)
SplitFrom(s, sep, i, cur) ==
  IF i > Len(s)
  THEN <<cur>>
  ELSE IF s[i] = sep
       THEN <<cur>> \o SplitFrom(s, sep, i + 1, <<>>)
       ELSE SplitFrom(s, sep, i + 1, Append(cur, s[i]))

Split(s, sep) == SplitFrom(s, sep, 1, <<>>)

\* strconv.Itoa of a natural number
RECURSIVE Itoa(_)
Itoa(n) ==
  IF n < 10 THEN <<Digits[n + 1]>>
  ELSE Itoa(n \div 10) \o <<Digits[(n % 10) + 1]>>

\* strconv.Atoi: [ok, n]; an optional sign followed by one or more digits
RECURSIVE DigitsValue(_, _)
DigitsValue(s, acc) ==
  IF s = <<>> THEN acc
  ELSE DigitsValue(Tail(s), acc * 10 + IndexOf(Digits, Head(s)))

Atoi(s) ==
  LET signed == s # <<>> /\ Head(s) \in {"+", "-"}
      body == IF signed THEN Tail(s) ELSE s
  IN IF body = <<>> \/ \E i \in 1..Len(body) : body[i] \notin Range(Digits)
     THEN [ok |-> FALSE, n |-> 0]
     ELSE [ok |-> TRUE,
           n |-> IF signed /\ Head(s) = "-"
                 THEN 0 - DigitsValue(body, 0)
                 ELSE DigitsValue(body, 0)]

(* ------------------------------------------------------ squares, pieces *)

sq2string(s) == <<Files[s % 10], Ranks[(s \div 10) - 1]>>

string2sq(t) == 21 + IndexOf(Ranks, t[2]) * 10 + IndexOf(Files, t[1])

colorOf(b) == IF b THEN cWHITE ELSE cBLACK

opposite(c) == IF c = cWHITE THEN cBLACK ELSE cWHITE

colorString(c) == IF c = cWHITE THEN "w" ELSE "b"

newPiece(col, typ, moved) == col * 128 + typ + (IF moved THEN 8 ELSE 0)

identify(p) == [col |-> p \div 128, typ |-> p % 8]

hasMoved(p) == (p \div 8) % 2 = 1

markedMoved(p) == IF hasMoved(p) THEN p ELSE p + 8

pieceString(p) ==
  IF identify(p).col = cWHITE
  THEN WhiteLetters[identify(p).typ + 1]
  ELSE BlackLetters[identify(p).typ + 1]

(* ------------------------------------------------------- NewBoardFromFen *)

\* strings.NewReplacer("1", "*", ..., "8", "********").Replace(rank)
RECURSIVE ReplaceDigits(_)
ReplaceDigits(rank) ==
  IF rank = <<>> THEN <<>>
  ELSE LET c == Head(rank)
       IN (IF c \in Range(Ranks) THEN Repeat("*", IndexOf(Ranks, c) + 1) ELSE <<c>>)
          \o ReplaceDigits(Tail(rank))

\* the switch on the character of a square: the piece byte it stores
pieceOfLetter(c) ==
  IF IndexOf(PieceLetters, c) >= 0 THEN IndexOf(PieceLetters, c) + 1
  ELSE IF IndexOf(BlackLetters, c) >= 1 THEN 128 + IndexOf(BlackLetters, c)
  ELSE 0

\* the ranks of the placement field, each padded to exactly eight characters
fenRanks(part0) ==
  LET repr == TrimSpace(part0)
      ranks == SubSeq(Split(repr \o Repeat("/", 9), "/"), 1, 8)
  IN [r \in 1..8 |-> SubSeq(ReplaceDigits(ranks[r]) \o Repeat("*", 8), 1, 8)]

\* the 120 squares written by the loops over ranks and files; rows are the
\* eight padded ranks
fenSquares(rows) ==
  [i \in 0..119 |->
     IF (9 - (i \div 10)) \in 0..7 /\ ((i % 10) - 1) \in 0..7
     THEN pieceOfLetter(rows[10 - (i \div 10)][i % 10])
     ELSE OFFBOARD]

\* the last square in scanning order (rank 8 first, files a to h) of a set
\* of <<rank, file>> hits, 0 when there is none
lastHit(hits) ==
  IF hits = {} THEN 0
  ELSE 91 - (Max({h[1] * 8 + h[2] : h \in hits}) \div 8) * 10
          + (Max({h[1] * 8 + h[2] : h \in hits}) % 8)

\* the square the king letter was last written to (lines 164 and 177)
kingSquare(rows, letter) ==
  lastHit({h \in (0..7) \X (0..7) : rows[h[1] + 1][h[2] + 1] = letter})

\* the board built from the padded ranks, the colour field and the parsed
\* full-move field (lines 128-191)
decodeBoard(rows, colour, number) ==
  [kind |-> "ok",
   sq |-> fenSquares(rows),
   epsq |-> 0,
   wksq |-> kingSquare(rows, "K"),
   bksq |-> kingSquare(rows, "k"),
   activeMove |-> colorOf(colour = <<"w">>),
   MoveNumber |-> IF number.ok THEN number.n % Uint8Mod ELSE 0]

\* no board: what a failed call leaves
noBoard(kind) ==
  [kind |-> kind, sq |-> [i \in 0..119 |-> 0], epsq |-> 0, wksq |-> 0,
   bksq |-> 0, activeMove |-> cWHITE, MoveNumber |-> 0]

\* the fields are read at indexes 1, 5 and 0 in that order; "error" is the
\* returned format error, "panic" the run-time index error of reading a
\* field that is absent
decodeFields(parts) ==
  IF Len(parts) = 0 THEN noBoard("error")
  ELSE IF Len(parts) < 2 THEN noBoard("panic")
  ELSE IF Len(parts) < 6 THEN noBoard("panic")
  ELSE decodeBoard(fenRanks(parts[1]), parts[2], Atoi(parts[6]))

NewBoardFromFen(fen_) == decodeFields(Fields(fen_))

(* ------------------------------------------------------------------- Fen *)

\* a variant that forgets the run of empty squares that ends a rank
RECURSIVE fenRankNoFlush(_, _, _, _)
fenRankNoFlush(sq_, first, f, nempty) ==
  IF f > 7
  THEN <<>>
  ELSE IF pieceString(sq_[first + f]) = "_"
       THEN fenRankNoFlush(sq_, first, f + 1, nempty + 1)
       ELSE (IF nempty > 0 THEN Itoa(nempty) ELSE <<>>)
            \o <<pieceString(sq_[first + f])>>
            \o fenRankNoFlush(sq_, first, f + 1, 0)

\* one rank of the placement field: runs of empty squares as one digit
RECURSIVE fenRank(_, _, _, _)
fenRank(sq_, first, f, nempty) ==
  IF f > 7
  THEN IF nempty > 0 THEN Itoa(nempty) ELSE <<>>
  ELSE LET t == pieceString(sq_[first + f])
       IN IF t = "_"
          THEN fenRank(sq_, first, f + 1, nempty + 1)
          ELSE (IF nempty > 0 THEN Itoa(nempty) ELSE <<>>) \o <<t>>
               \o fenRank(sq_, first, f + 1, 0)

\* play[r] is the slice of sq starting at 91 - 10 r
fenPlacement(sq_) ==
  Concat([r \in 1..8 |->
            fenRank(sq_, 91 - (r - 1) * 10, 0, 0)
            \o (IF r - 1 # 7 THEN <<"/">> ELSE <<>>)])

fenCastling(b) ==
  LET w == IF ~hasMoved(b.sq[b.wksq])
           THEN (IF ~hasMoved(b.sq[21]) THEN <<"Q">> ELSE <<>>)
                \o (IF ~hasMoved(b.sq[28]) THEN <<"K">> ELSE <<>>)
           ELSE <<>>
      k == IF ~hasMoved(b.sq[b.bksq])
           THEN (IF ~hasMoved(b.sq[91]) THEN <<"q">> ELSE <<>>)
                \o (IF ~hasMoved(b.sq[98]) THEN <<"k">> ELSE <<>>)
           ELSE <<>>
  IN IF w \o k = <<>> THEN <<" ", "-">> ELSE <<" ">> \o w \o k

Fen(b) ==
  fenPlacement(b.sq)
  \o <<" ", colorString(b.activeMove)>>
  \o fenCastling(b)
  \o (IF b.epsq = 0 THEN <<" ", "-">> ELSE <<" ", " ">> \o sq2string(b.epsq))
  \o <<" ", "0">>
  \o <<" ">> \o Itoa(b.MoveNumber)

(* --------------------------------------------- attack and move geometry *)

\* the fixed-offset scans: the squares sq0 + d holding a piece (col, typ)
RECURSIVE leapers(_, _, _, _, _)
leapers(sq_, sq0, ds, col, typ) ==
  IF ds = <<>> THEN <<>>
  ELSE LET from == sq0 + Head(ds)
           id == identify(sq_[from])
       IN (IF id.col = col /\ id.typ = typ THEN <<from>> ELSE <<>>)
          \o leapers(sq_, sq0, Tail(ds), col, typ)

\* one ray: walk until the sentinel, test only the first occupant
RECURSIVE rayHit(_, _, _, _, _)
rayHit(sq_, from, d, col, typs) ==
  IF sq_[from] = OFFBOARD THEN <<>>
  ELSE IF sq_[from] # 0
       THEN IF identify(sq_[from]).col = col /\ identify(sq_[from]).typ \in typs
            THEN <<from>> ELSE <<>>
       ELSE rayHit(sq_, from + d, d, col, typs)

RECURSIVE rays(_, _, _, _, _)
rays(sq_, sq0, ds, col, typs) ==
  IF ds = <<>> THEN <<>>
  ELSE rayHit(sq_, sq0 + Head(ds), Head(ds), col, typs)
       \o rays(sq_, sq0, Tail(ds), col, typs)

attackersOf(sq_, sq0, col) ==
  leapers(sq_, sq0, dKNIGHT, col, pKNIGHT)
  \o leapers(sq_, sq0, dKING, col, pKING)
  \o rays(sq_, sq0, dDIAGONAL, col, {pQUEEN, pBISHOP})
  \o rays(sq_, sq0, dSTRAIGHT, col, {pQUEEN, pROOK})
  \o leapers(sq_, sq0,
             IF col = cBLACK THEN SubSeq(dDIAGONAL, 1, 2) ELSE SubSeq(dDIAGONAL, 3, 4),
             col, pPAWN)

\* the pawn pushes that piecesMovableTo adds to the attackers
pawnPushes(sq_, sq0, col) ==
  LET direction == IF col = cBLACK THEN 1 ELSE -1
      from == sq0 + direction * 10
      from2 == from + direction * 10
  IN IF sq_[from] # OFFBOARD
     THEN IF sq_[from] = 0
          THEN IF identify(sq_[from2]).col = col /\ identify(sq_[from2]).typ = pPAWN
                  /\ ~hasMoved(sq_[from2])
               THEN <<from2>> ELSE <<>>
          ELSE IF identify(sq_[from]).col = col /\ identify(sq_[from]).typ = pPAWN
               THEN <<from>> ELSE <<>>
     ELSE <<>>

piecesMovableTo(sq_, sq0, col) ==
  attackersOf(sq_, sq0, col) \o pawnPushes(sq_, sq0, col)

(* ---------------------------------------------------------- SAN grammar *)

\* the character at 1-based position i, "" past the end
At(s, i) == IF i >= 1 /\ i <= Len(s) THEN s[i] ELSE ""

\* rSANRE, ^(P?|[RNBQK])([a-h]?[1-8]?)?x?([a-h][1-8])(=[PRNBQK])?, matched
\* leftmost-first: the lengths each group may take, in the order the
\* matcher prefers them
pieceAlts(s) ==
  (IF At(s, 1) = "P" THEN <<1>> ELSE <<>>) \o <<0>>
  \o (IF At(s, 1) \in {"R", "N", "B", "Q", "K"} THEN <<1>> ELSE <<>>)

hintAlts(s, i) ==
  (IF At(s, i) \in Range(Files)
   THEN (IF At(s, i + 1) \in Range(Ranks) THEN <<2>> ELSE <<>>) \o <<1>>
   ELSE <<>>)
  \o (IF At(s, i) \in Range(Ranks) THEN <<1>> ELSE <<>>)
  \o <<0>>

captureAlts(s, i) == (IF At(s, i) = "x" THEN <<1>> ELSE <<>>) \o <<0>>

\* every way of splitting the prefix, most preferred first
hintSplits(s, pl) ==
  Concat([h \in 1..Len(hintAlts(s, pl + 1)) |->
            [x \in 1..Len(captureAlts(s, pl + hintAlts(s, pl + 1)[h] + 1)) |->
               <<pl, hintAlts(s, pl + 1)[h],
                 captureAlts(s, pl + hintAlts(s, pl + 1)[h] + 1)[x]>>]])

sanSplits(s) ==
  Concat([a \in 1..Len(pieceAlts(s)) |-> hintSplits(s, pieceAlts(s)[a])])

\* does the destination square follow the split m
splitFits(s, m) ==
  /\ At(s, m[1] + m[2] + m[3] + 1) \in Range(Files)
  /\ At(s, m[1] + m[2] + m[3] + 2) \in Range(Ranks)

\* the four groups of the match with split m: piece, origin hint,
\* destination, promotion
sanGroups(s, m, d) ==
  <<SubSeq(s, 1, m[1]),
    SubSeq(s, m[1] + 1, m[1] + m[2]),
    SubSeq(s, d, d + 1),
    IF At(s, d + 2) = "=" /\ At(s, d + 3) \in Range(PieceLetters)
    THEN SubSeq(s, d + 2, d + 3) ELSE <<>>>>

firstFit(s, splits, good) ==
  IF good = {} THEN <<>>
  ELSE sanGroups(s, splits[Min(good)],
                 splits[Min(good)][1] + splits[Min(good)][2]
                 + splits[Min(good)][3] + 1)

matchSplits(s, splits) ==
  firstFit(s, splits, {k \in 1..Len(splits) : splitFits(s, splits[k])})

\* FindStringSubmatch: <<>> when there is no match, else the four groups
FindStringSubmatch(s) == matchSplits(s, sanSplits(s))

(* ------------------------------------------------------ move application *)

\* a variant that asks for a pawn that HAS moved (the negation dropped)
doublePushOfMoved(cPiece, csq, step, tosq) ==
  hasMoved(cPiece) /\ csq + 2 * step = tosq

\* the test of line 391: an unmoved pawn advancing two squares
doublePush(cPiece, csq, step, tosq) ==
  ~hasMoved(cPiece) /\ csq + 2 * step = tosq

\* the pawn branch of tryMove (lines 391-402)
pawnMove(b, cPiece, activeMove_, step, csq, tosq, promotes) ==
  [b EXCEPT
     !.epsq = IF doublePush(cPiece, csq, step, tosq) THEN tosq - step ELSE 0,
     !.sq = [(IF ~doublePush(cPiece, csq, step, tosq) /\ tosq = b.epsq
              THEN [b.sq EXCEPT ![b.epsq - step] = 0]
              ELSE b.sq)
             EXCEPT ![tosq] = markedMoved(
                                IF promotes # <<>>
                                THEN newPiece(activeMove_,
                                       IndexOf(PieceLetters, promotes[2]) + 1,
                                       TRUE)
                                ELSE cPiece),
                    ![csq] = 0]]

\* the other branch (lines 404-412)
pieceMove(b, cPiece, csq, tosq) ==
  [b EXCEPT !.sq = [b.sq EXCEPT ![tosq] = markedMoved(cPiece), ![csq] = 0],
            !.epsq = 0,
            !.bksq = IF identify(cPiece).typ = pKING
                        /\ identify(cPiece).col = cBLACK
                     THEN tosq ELSE b.bksq,
            !.wksq = IF identify(cPiece).typ = pKING
                        /\ identify(cPiece).col # cBLACK
                     THEN tosq ELSE b.wksq]

\* the mutation of tryMove (lines 389-414), before the king test
applyMove(b, activeMove_, csq, tosq, promotes) ==
  IF identify(b.sq[csq]).typ = pPAWN
  THEN pawnMove(b, b.sq[csq], activeMove_,
                IF activeMove_ = cWHITE THEN 10 ELSE -10, csq, tosq, promotes)
  ELSE pieceMove(b, b.sq[csq], csq, tosq)

\* a variant that never finds the king attacked (the test left out)
kingNeverAttacked(b, activeMove_) == FALSE

\* the final test of tryMove (lines 416-424): is the mover's king attacked
kingAttacked(b, activeMove_) ==
  Len(attackersOf(b.sq, IF activeMove_ = cWHITE THEN b.wksq ELSE b.bksq,
                  opposite(activeMove_))) # 0

\* the deferred restore of a trial (lines 380-386)
restore(b, after, csq, tosq) ==
  [after EXCEPT !.sq = [after.sq EXCEPT ![tosq] = b.sq[tosq],
                                        ![csq] = b.sq[csq]],
                !.epsq = b.epsq,
                !.wksq = b.wksq,
                !.bksq = b.bksq]

\* what tryMove leaves and returns, given the mutated board
tryResult(try, b, after, activeMove_, csq, tosq) ==
  [b |-> IF try THEN restore(b, after, csq, tosq) ELSE after,
   err |-> kingAttacked(after, activeMove_)]

\* tryMove: the board it leaves and whether it returned an error
tryMove(try, b, activeMove_, csq, tosq, promotes) ==
  tryResult(try, b, applyMove(b, activeMove_, csq, tosq, promotes),
            activeMove_, csq, tosq)

\* does a candidate pass the type and hint filters of lines 354-355
passesFilters(b, candidate, pieceTyp, fromHint) ==
  /\ identify(b.sq[candidate]).typ = pieceTyp
  /\ (fromHint = <<>> \/ Contains(sq2string(candidate), fromHint))

\* the loop of lines 353-361: the board after the trials and the survivors
RECURSIVE qualify(_, _, _, _, _, _, _)
RECURSIVE qualifyRest(_, _, _, _, _, _, _)

keepQualified(first, rest) ==
  [b |-> rest.b, qualified |-> first \o rest.qualified]

\* t is the outcome of the trial of the first candidate
qualifyRest(t, candidates, activeMove_, pieceTyp, fromHint, tosq, promotes) ==
  keepQualified(IF ~t.err THEN <<Head(candidates)>> ELSE <<>>,
                qualify(t.b, Tail(candidates), activeMove_, pieceTyp, fromHint,
                        tosq, promotes))

qualify(b, candidates, activeMove_, pieceTyp, fromHint, tosq, promotes) ==
  IF candidates = <<>> THEN [b |-> b, qualified |-> <<>>]
  ELSE IF passesFilters(b, Head(candidates), pieceTyp, fromHint)
       THEN qualifyRest(tryMove(TRUE, b, activeMove_, Head(candidates), tosq,
                                promotes),
                        candidates, activeMove_, pieceTyp, fromHint, tosq,
                        promotes)
       ELSE qualify(b, Tail(candidates), activeMove_, pieceTyp, fromHint,
                    tosq, promotes)

\* castling writes the king and the rook on their squares unconditionally
castleLong(b, activeMove_) ==
  IF activeMove_ = cWHITE
  THEN [b EXCEPT !.sq = [b.sq EXCEPT ![21] = 0, ![22] = 0,
                                     ![23] = newPiece(cWHITE, pKING, TRUE),
                                     ![24] = newPiece(cWHITE, pROOK, TRUE),
                                     ![25] = 0],
                 !.wksq = 23, !.epsq = 0]
  ELSE [b EXCEPT !.sq = [b.sq EXCEPT ![91] = 0, ![92] = 0,
                                     ![93] = newPiece(cBLACK, pKING, TRUE),
                                     ![94] = newPiece(cBLACK, pROOK, TRUE),
                                     ![95] = 0],
                 !.bksq = 93, !.epsq = 0]

castleShort(b, activeMove_) ==
  IF activeMove_ = cWHITE
  THEN [b EXCEPT !.sq = [b.sq EXCEPT ![25] = 0,
                                     ![26] = newPiece(cWHITE, pROOK, TRUE),
                                     ![27] = newPiece(cWHITE, pKING, TRUE),
                                     ![28] = 0],
                 !.wksq = 27, !.epsq = 0]
  ELSE [b EXCEPT !.sq = [b.sq EXCEPT ![95] = 0,
                                     ![96] = newPiece(cBLACK, pROOK, TRUE),
                                     ![97] = newPiece(cBLACK, pKING, TRUE),
                                     ![98] = 0],
                 !.bksq = 97, !.epsq = 0]

sanNull == <<"-", "-">>
sanCastleLong == <<"O", "-", "O", "-", "O">>
sanCastleShort == <<"O", "-", "O">>

\* the piece type and the origin hint a matched SAN asks for (lines 337-344)
sanPieceTyp(m) == IndexOf(PieceLetters, IF m[1] = <<>> THEN "P" ELSE m[1][1]) + 1

sanFromHint(m) ==
  IF m[1] = <<>> /\ m[2] = <<>> THEN SubSeq(m[3], 1, 1) ELSE m[2]

\* line 369: the move for real; t is what tryMove(false, ...) left
finalMove(t) == [b |-> t.b, err |-> IF t.err THEN "attacked" ELSE ""]

\* lines 362-369: exactly one survivor, or an error; q is the outcome of
\* the trials
decide(q, activeMove_, tosq, promotes) ==
  IF Len(q.qualified) # 1
  THEN [b |-> q.b, err |-> "count"]
  ELSE finalMove(tryMove(FALSE, q.b, activeMove_, q.qualified[1], tosq,
                         promotes))

\* lines 334-369: m is the result of the match.  The candidates slice is
\* never nil, so the test of line 348 never fires.
resolve(b, m, activeMove_) ==
  IF m = <<>> THEN [b |-> b, err |-> "invalid"]
  ELSE decide(qualify(b, piecesMovableTo(b.sq, string2sq(m[3]), activeMove_),
                      activeMove_, sanPieceTyp(m), sanFromHint(m),
                      string2sq(m[3]), m[4]),
              activeMove_, string2sq(m[3]), m[4])

\* makeMoveFor: the board it leaves and the error it returns ("" for nil)
makeMoveFor(b, san, activeMove_) ==
  IF san = sanNull THEN [b |-> b, err |-> ""]
  ELSE IF HasPrefix(san, sanCastleLong)
  THEN [b |-> castleLong(b, activeMove_), err |-> ""]
  ELSE IF HasPrefix(san, sanCastleShort)
  THEN [b |-> castleShort(b, activeMove_), err |-> ""]
  ELSE resolve(b, FindStringSubmatch(san), activeMove_)

(* ------------------------------------------------- positions and moves *)

\* white pawns on d5 and f5 beside the square a black e-pawn passes over
fenEnPassant ==
  <<"4","k","3","/","4","p","3","/","8","/","3","P","1","P","2","/","8","/",
    "8","/","8","/","4","K","3"," ","b"," ","-"," ","-"," ","0"," ","2","5",
    "5">>

\* knights on b1, e2 and f3, the one on e2 pinned to the king by a rook
fenKnights ==
  <<"4","r","1","k","1","/","8","/","8","/","8","/","8","/","5","N","2","/",
    "4","N","3","/","1","N","2","K","3"," ","w"," ","-"," ","-"," ","0"," ",
    "1">>

\* a white pawn one step from promotion, both white rooks at home
fenPromote ==
  <<"6","k","1","/","4","P","3","/","8","/","8","/","8","/","8","/","8","/",
    "R","3","K","2","R"," ","w"," ","K","Q"," ","-"," ","0"," ","1">>

StartFens == {fINITIAL, fenEnPassant, fenKnights, fenPromote}

\* the SAN texts offered to MakeMove
SANs ==
  {<<"e","4">>,
   <<"e","5">>,
   <<"d","5">>,
   <<"N","f","3">>,
   <<"N","c","3">>,
   <<"N","c","6">>,
   <<"B","b","5">>,
   <<"a","6">>,
   <<"-","-">>,
   <<"O","-","O">>,
   <<"O","-","O","-","O">>,
   <<"P","e","6">>,
   <<"d","x","e","6">>,
   <<"e","6">>,
   <<"N","d","2">>,
   <<"N","b","d","2">>,
   <<"N","1","d","2">>,
   <<"N","d","4">>,
   <<"N","g","1">>,
   <<"N","c","1">>,
   <<"e","8","=","K">>,
   <<"e","8","=","Q">>,
   <<"K","e","2">>,
   <<"Z","9">>}

(* ========================================================== PGN movetext *)

(* ------------------------------------------------------------ token kinds *)

pgnEOF == 0
pgnPERIOD == 1
pgnASTERISK == 2
pgnLBRACKET == 3
pgnRBRACKET == 4
pgnLPAREN == 5
pgnRPAREN == 6
pgnLANGLE == 7
pgnRANGLE == 8
pgnNAG == 9
pgnRESULT == 10
pgnSTRING == 11
pgnSYMBOL == 12
pgnINTEGER == 13
pgnIDENTIFIER == 14
pgnCOMMENT == 15
pgnTOKEN == 16

whiteWins == <<"1", "-", "0">>
blackWins == <<"0", "-", "1">>
drawRes == <<"1", "/", "2", "-", "1", "/", "2">>

(* -------------------------------------------------------- tokenizer.next *)

\* the characters next() skips; the vertical tab of the source cannot be
\* written as a character here and occurs in no input
pgnSpaces == {" ", "\t", "\n", "\r"}

pgnDigits == {"0", "1", "2", "3", "4", "5", "6", "7", "8", "9"}

pgnLetters ==
  {"a","b","c","d","e","f","g","h","i","j","k","l","m","n","o","p","q","r",
   "s","t","u","v","w","x","y","z",
   "A","B","C","D","E","F","G","H","I","J","K","L","M","N","O","P","Q","R",
   "S","T","U","V","W","X","Y","Z","_"}

pgnSymbols == {"+", "#", "=", ":", "-"}

\* the single-character tokens, in the order next() tests them
pgnPunctuation ==
  <<<<".", pgnPERIOD>>, <<"*", pgnASTERISK>>, <<"[", pgnLBRACKET>>,
    <<"]", pgnRBRACKET>>, <<"(", pgnLPAREN>>, <<")", pgnRPAREN>>,
    <<"<", pgnLANGLE>>, <<">", pgnRANGLE>>>>

\* t.text[k:]
Drop(txt, k) == SubSeq(txt, k + 1, Len(txt))

\* a scanning loop "for pos = from; pos < len(t.text); pos++" that breaks at
\* the first character outside class: the 0-based pos it ends with
RECURSIVE span(_, _, _)
span(txt, pos, class) ==
  IF pos >= Len(txt) \/ txt[pos + 1] \notin class THEN pos
  ELSE span(txt, pos + 1, class)

\* the loop of the string case: a backslash skips the character after it,
\* a double quote stops the scan; the 0-based pos it ends with, which is
\* len(t.text) + 1 when the text ends with a skipping backslash
RECURSIVE stringEnd(_, _)
stringEnd(txt, pos) ==
  IF pos >= Len(txt) THEN pos
  ELSE IF txt[pos + 1] = "\\" THEN stringEnd(txt, pos + 2)
  ELSE IF txt[pos + 1] = "\"" THEN pos
  ELSE stringEnd(txt, pos + 1)

\* what a call of next() gives: the token, the text left in the tokenizer
\* and whether the call stopped with a run-time panic
tokenOf(typ, val, rest) ==
  [token |-> [typ |-> typ, val |-> val], text |-> rest, panic |-> FALSE]

tokenPanic(txt) ==
  [token |-> [typ |-> pgnSTRING, val |-> <<>>], text |-> txt, panic |-> TRUE]

\* the comment case: up to the closing delimiter, else to the end of input
commentToken(txt, i) ==
  IF i >= 0
  THEN tokenOf(pgnCOMMENT, SubSeq(txt, 2, i), Drop(txt, i + 1))
  ELSE tokenOf(pgnCOMMENT, Drop(txt, 1), <<>>)

\* the string case: t.text[1:pos] and t.text[pos+1:] are slice expressions
\* that panic when pos+1 exceeds len(t.text), which is when no closing quote
\* was found
stringToken(txt, pos) ==
  IF pos + 1 > Len(txt)
  THEN tokenPanic(txt)
  ELSE tokenOf(pgnSTRING, SubSeq(txt, 2, pos), Drop(txt, pos + 1))

\* the nag case: the digits after '$', "0" when there is none
nagToken(txt, pos) ==
  tokenOf(pgnNAG,
          IF pos = 1 THEN <<"0">> ELSE SubSeq(txt, 2, pos),
          Drop(txt, pos))

\* the symbol case: the run of digits, letters and symbol characters and
\* the kind its characters give it; an empty run gives an empty pgnTOKEN and
\* consumes nothing
symbolKind(run) ==
  IF \E i \in 1..Len(run) : run[i] \in pgnSymbols THEN pgnSYMBOL
  ELSE IF \E i \in 1..Len(run) : run[i] \in pgnLetters THEN pgnIDENTIFIER
  ELSE IF \E i \in 1..Len(run) : run[i] \in pgnDigits THEN pgnINTEGER
  ELSE pgnTOKEN

symbolToken(txt, pos) ==
  tokenOf(symbolKind(SubSeq(txt, 1, pos)), SubSeq(txt, 1, pos), Drop(txt, pos))

punctuationToken(txt) ==
  LET hit == CHOOSE i \in 1..Len(pgnPunctuation) : pgnPunctuation[i][1] = txt[1]
  IN tokenOf(pgnPunctuation[hit][2], <<txt[1]>>, Drop(txt, 1))

\* next() on a text that starts with a non-space character
nextAt(txt) ==
  IF txt[1] \in {";", "{"}
  THEN commentToken(txt, IndexOf(txt, IF txt[1] = "{" THEN "}" ELSE "\n"))
  ELSE IF txt[1] = "\""
  THEN stringToken(txt, stringEnd(txt, 1))
  ELSE IF HasPrefix(txt, whiteWins)
  THEN tokenOf(pgnRESULT, whiteWins, Drop(txt, Len(whiteWins)))
  ELSE IF HasPrefix(txt, blackWins)
  THEN tokenOf(pgnRESULT, blackWins, Drop(txt, Len(blackWins)))
  ELSE IF HasPrefix(txt, drawRes)
  THEN tokenOf(pgnRESULT, drawRes, Drop(txt, Len(drawRes)))
  ELSE IF \E i \in 1..Len(pgnPunctuation) : pgnPunctuation[i][1] = txt[1]
  THEN punctuationToken(txt)
  ELSE IF txt[1] = "$"
  THEN nagToken(txt, span(txt, 1, pgnDigits))
  ELSE symbolToken(txt, span(txt, 0, pgnDigits \cup pgnLetters \cup pgnSymbols))

\* tokenizer.next()
next(txt) ==
  IF span(txt, 0, pgnSpaces) >= Len(txt)
  THEN tokenOf(pgnEOF, <<>>, <<>>)
  ELSE nextAt(Drop(txt, span(txt, 0, pgnSpaces)))

(* ------------------------------------------------------------ SAN tokens *)

sanPieceLetters == {"P", "R", "N", "B", "Q", "K"}

sanSuffixChars == {"!", "?"}

\* s, from 0-based position i on, is exactly the text given
textAt(s, i, given) ==
  /\ Len(s) >= i + Len(given)
  /\ \A k \in 1..Len(given) : s[i + k] = given[k]

\* the tail of pgnSAN_REGEXP, (\+|#)?(!|\?|!!|\?\?|\?!|!\?)?$ : s from
\* 0-based position i on is an optional check mark and an optional suffix
sanTail(s, i) ==
  \E g \in 0..1 : \E h \in 0..2 :
    /\ Len(s) = i + g + h
    /\ g = 1 => s[i + 1] \in {"+", "#"}
    /\ \A k \in 1..h : s[i + g + k] \in sanSuffixChars

\* (P?|[RNBQK])[a-h]?[1-8]?x?[a-h][1-8](=[PRNBQK])? with the given lengths
\* of its optional parts, followed by the tail
sanShape(s, a, b, c, d, e) ==
  /\ Len(s) >= a + b + c + d + 2 + e
  /\ a = 1 => s[1] \in sanPieceLetters
  /\ b = 1 => s[a + 1] \in Range(Files)
  /\ c = 1 => s[a + b + 1] \in Range(Ranks)
  /\ d = 1 => s[a + b + c + 1] = "x"
  /\ s[a + b + c + d + 1] \in Range(Files)
  /\ s[a + b + c + d + 2] \in Range(Ranks)
  /\ e = 2 => /\ s[a + b + c + d + 3] = "="
              /\ s[a + b + c + d + 4] \in sanPieceLetters
  /\ sanTail(s, a + b + c + d + 2 + e)

\* san_re.MatchString(s)
sanMatch(s) ==
  \/ textAt(s, 0, sanCastleLong) /\ sanTail(s, Len(sanCastleLong))
  \/ textAt(s, 0, sanCastleShort) /\ sanTail(s, Len(sanCastleShort))
  \/ \E a \in 0..1 : \E b \in 0..1 : \E c \in 0..1 : \E d \in 0..1 :
       \E e \in {0, 2} : sanShape(s, a, b, c, d, e)

\* strings.HasSuffix
HasSuffix(s, p) ==
  /\ Len(s) >= Len(p)
  /\ \A k \in 1..Len(p) : s[Len(s) - Len(p) + k] = p[k]

\* the annotation suffixes in the order generatePlies tests them, each with
\* its code
sanSuffixes ==
  <<<<<<"!", "!">>, 3>>, <<<<"?", "?">>, 4>>, <<<<"!", "?">>, 5>>,
    <<<<"?", "!">>, 6>>, <<<<"!">>, 1>>, <<<<"?">>, 2>>>>

\* the index in sanSuffixes of the first suffix SAN ends with, 0 for none
suffixOf(SAN) ==
  IF \E i \in 1..Len(sanSuffixes) : HasSuffix(SAN, sanSuffixes[i][1])
  THEN Min({i \in 1..Len(sanSuffixes) : HasSuffix(SAN, sanSuffixes[i][1])})
  ELSE 0

(* ----------------------------------------------------- the tree of plies *)

\* the zero value of Variation
zeroVariation ==
  [MoveNumber |-> 0, WhiteMove |-> FALSE, Plies |-> <<>>, Result |-> <<>>,
   Comment |-> <<>>]

\* &Ply{SAN: SAN}
newPly(SAN) ==
  [SAN |-> SAN, Nags |-> <<>>, Comment |-> <<>>, Variations |-> <<>>]

\* the local ply of generatePlies is nil until the call appended a ply, and
\* then points to the last ply of its variation
plyIsNil(v) == v.Plies = <<>>

\* ply.Nags = append(ply.Nags, nag)
appendNag(v, nag) ==
  [v EXCEPT !.Plies[Len(v.Plies)].Nags = Append(@, nag)]

\* ply.Comment += val, or variation.Comment += val when ply is nil
addComment(v, val) ==
  IF plyIsNil(v)
  THEN [v EXCEPT !.Comment = @ \o val]
  ELSE [v EXCEPT !.Plies[Len(v.Plies)].Comment = @ \o val]

\* the RAV appended to the first ply of the variation
attachRavToFirstPly(v, rav) ==
  [v EXCEPT !.Plies[1].Variations = Append(@, rav)]

\* ply.Variations = append(ply.Variations, rav)
attachRav(v, rav) ==
  [v EXCEPT !.Plies[Len(v.Plies)].Variations = Append(@, rav)]

(* -------------------------------------------------- generatePlies, cases *)

\* one activation of generatePlies: its variation and its other arguments,
\* which it uses as the running move number and side
frameOf(variation, inRav, thisMoveNumber, thisPlyWhite) ==
  [variation |-> variation, inRav |-> inRav,
   thisMoveNumber |-> thisMoveNumber, thisPlyWhite |-> thisPlyWhite]

\* lines 440-448: the ply is appended, a variation without a start takes
\* the running number and side, the side flips and the number grows after
\* a black ply
appendPly(f, SAN) ==
  [f EXCEPT
     !.variation.Plies = Append(@, newPly(SAN)),
     !.variation.MoveNumber =
        IF @ = 0 THEN f.thisMoveNumber ELSE @,
     !.variation.WhiteMove =
        IF f.variation.MoveNumber = 0 THEN f.thisPlyWhite ELSE @,
     !.thisPlyWhite = ~f.thisPlyWhite,
     !.thisMoveNumber =
        IF f.thisPlyWhite THEN @ ELSE (@ + 1) % Uint8Mod]

\* lines 420-438: a suffix is cut from the SAN and its code goes to the ply
\* variable as it stands, which is the ply before this move
suffixedPly(f, SAN, k) ==
  IF k = 0
  THEN [kind |-> "", f |-> appendPly(f, SAN)]
  ELSE IF plyIsNil(f.variation)
  THEN [kind |-> "panic", f |-> f]
  ELSE [kind |-> "",
        f |-> appendPly(
                [f EXCEPT !.variation = appendNag(@, sanSuffixes[k][2])],
                SubSeq(SAN, 1, Len(SAN) - Len(sanSuffixes[k][1])))]

\* case pgnSYMBOL, pgnIDENTIFIER without the test of line 416
moveCaseNoCheck(f, val) ==
  IF val = sanNull
  THEN [kind |-> "", f |-> appendPly(f, sanNull)]
  ELSE suffixedPly(f, val, suffixOf(val))

\* case pgnSYMBOL, pgnIDENTIFIER
moveCase(f, val) ==
  IF val = sanNull
  THEN [kind |-> "", f |-> appendPly(f, sanNull)]
  ELSE IF ~sanMatch(val)
  THEN [kind |-> "mismatched SAN", f |-> f]
  ELSE suffixedPly(f, val, suffixOf(val))

\* case pgnNAG
nagCase(f, val) ==
  IF plyIsNil(f.variation)
  THEN [kind |-> "panic", f |-> f]
  ELSE [kind |-> "",
        f |-> [f EXCEPT !.variation = appendNag(@, Atoi(val).n % Uint8Mod)]]

\* the loop of line 392: next() is called until it gives a token that is
\* not a period; i counts the periods.  The result is that last call with
\* the count added
RECURSIVE periodsFrom(_, _)
periodsFrom(r, i) ==
  IF ~r.panic /\ r.token.typ = pgnPERIOD
  THEN periodsFrom(next(r.text), i + 1)
  ELSE [token |-> r.token, text |-> r.text, panic |-> r.panic, i |-> i]

\* lines 395-408 for the number m and the side p read
numberCase(f, m, p) ==
  IF f.variation.MoveNumber # 0
  THEN IF m # f.thisMoveNumber
       THEN [kind |-> "move number mismatch", f |-> f]
       ELSE IF p # f.thisPlyWhite
       THEN [kind |-> "move order mismatch", f |-> f]
       ELSE [kind |-> "",
             f |-> [f EXCEPT !.thisMoveNumber = m, !.thisPlyWhite = p]]
  ELSE [kind |-> "",
        f |-> [f EXCEPT !.variation.MoveNumber = m,
                        !.variation.WhiteMove = p,
                        !.thisMoveNumber = m, !.thisPlyWhite = p]]

\* case pgnEOF taken as the end of the variation at every depth
eofNeverError(f) == FALSE

\* case pgnEOF: inside a RAV the end of input is an error
eofIsError(f) == f.inRav

\* case pgnRPAREN without the assignment of line 369
ravClosedKeepResult(v) == v

\* case pgnRPAREN inside a RAV: variation.Result = "*"
ravClosed(v) == [v EXCEPT !.Result = <<"*">>]

(* ------------------------------------------------- the parts of the state *)

\* the state of a movetext parse: the text given, the text left in the
\* tokenizer, the token at hand and the active generatePlies calls
pgnVars == <<MovesText, text, token, calls>>

\* no movetext is being parsed
pgnIdle ==
  /\ MovesText = <<>>
  /\ text = <<>>
  /\ token = [typ |-> pgnEOF, val |-> <<>>]
  /\ calls = <<>>

\* no board exists
boardIdle ==
  /\ fen = <<>>
  /\ sq = [i \in 0..119 |-> 0]
  /\ epsq = 0
  /\ wksq = 0
  /\ bksq = 0
  /\ activeMove = cWHITE
  /\ MoveNumber = 0
  /\ lastSAN = <<>>
  /\ MoveWhite = FALSE
  /\ hist = <<>>

boardVars ==
  <<sq, epsq, wksq, bksq, activeMove, lastSAN, MoveWhite, MoveNumber, fen,
    hist>>

(* --------------------------------------------------------- state machine *)

\* the Board object as the methods see it
Board ==
  [sq |-> sq, epsq |-> epsq, wksq |-> wksq, bksq |-> bksq,
   activeMove |-> activeMove, MoveNumber |-> MoveNumber]

\* the state after NewBoardFromFen(start) returned a board
Init ==
  \E start \in StartFens :
    \E r \in {NewBoardFromFen(start)} :
       /\ r.kind = "ok"
       /\ fen = start
       /\ sq = r.sq
       /\ epsq = r.epsq
       /\ wksq = r.wksq
       /\ bksq = r.bksq
       /\ activeMove = r.activeMove
       /\ MoveNumber = r.MoveNumber
       /\ lastSAN = <<>>
       /\ MoveWhite = FALSE
       /\ ret = "new"
       /\ hist = <<>>
       /\ pgnIdle

\* Board.MakeMove(san); ret is the error it returned, "ok" for nil
MakeMove(san) ==
  /\ Len(hist) < MaxPly
  /\ \E r \in {makeMoveFor(Board, san, activeMove)} :
       /\ sq' = r.b.sq
       /\ epsq' = r.b.epsq
       /\ wksq' = r.b.wksq
       /\ bksq' = r.b.bksq
       /\ IF r.err = ""
          THEN /\ MoveNumber' = IF activeMove = cBLACK
                                THEN (MoveNumber + 1) % Uint8Mod
                                ELSE MoveNumber
               /\ activeMove' = opposite(activeMove)
               /\ MoveWhite' = ~MoveWhite
               /\ lastSAN' = san
               /\ ret' = "ok"
               /\ hist' = Append(hist, san)
          ELSE /\ UNCHANGED <<MoveNumber, activeMove, MoveWhite, lastSAN, hist>>
               /\ ret' = r.err
  /\ UNCHANGED <<fen, pgnVars>>

\* Board.LastMove()
LastMove ==
  [san |-> lastSAN,
   white |-> activeMove = cBLACK,
   number |-> IF activeMove = cBLACK THEN MoveNumber
              ELSE (MoveNumber - 1) % Uint8Mod]

Next == \E san \in SANs : MakeMove(san)

Spec == Init /\ [][Next]_vars

(* ------------------------------------------------------- a single trial *)

TrialRets == {"trial_ok", "trial_err"}

\* one call tryMove(true, ...) as makeMoveFor issues it at line 356: for a
\* matched SAN, on a candidate that passed the type and hint filters.  The
\* state it leaves is the board as the trial returned it.
TrialMove(san) ==
  /\ ret \notin TrialRets
  /\ san # sanNull
  /\ ~HasPrefix(san, sanCastleShort)
  /\ \E m \in {FindStringSubmatch(san)} :
       /\ m # <<>>
       /\ \E csq \in Range(piecesMovableTo(sq, string2sq(m[3]), activeMove)) :
            /\ passesFilters(Board, csq, sanPieceTyp(m), sanFromHint(m))
            /\ \E t \in {tryMove(TRUE, Board, activeMove, csq,
                                 string2sq(m[3]), m[4])} :
                 /\ sq' = t.b.sq
                 /\ epsq' = t.b.epsq
                 /\ wksq' = t.b.wksq
                 /\ bksq' = t.b.bksq
                 /\ ret' = IF t.err THEN "trial_err" ELSE "trial_ok"
  /\ UNCHANGED <<activeMove, lastSAN, MoveWhite, MoveNumber, fen, hist>>
  /\ UNCHANGED pgnVars

NextTrial ==
  \/ \E san \in SANs : ret \notin TrialRets /\ MakeMove(san)
  \/ \E san \in SANs : TrialMove(san)

SpecTrial == Init /\ [][NextTrial]_vars

(* ---------------------------------------------------------- FEN decoding *)

\* texts of one rank of a valid placement field
RankTexts ==
  {<<>>, <<"8">>, <<"4","4">>, <<"4","k","3">>, <<"K","7">>,
   <<"r","n","b","q","k","b","n","r">>, <<"P","P","P","P","P","P","P","P">>,
   <<"1","p","6">>, <<"3","Q","R","3">>, <<"p","1","p","1","p","1","p","1">>,
   <<"2","B","2","1","N","1">>}

\* placement fields: the first and the seventh rank vary, two ranks are
\* written as empty text
Placements ==
  {a \o <<"/">> \o <<"8">> \o <<"/">> \o <<"/">> \o <<"3","p","4">> \o <<"/">>
     \o <<"/">> \o <<"1","1","6">> \o <<"/">> \o g \o <<"/">>
     \o <<"R","3","K","2","R">> : a \in RankTexts, g \in RankTexts}

\* what may precede the placement field
Leads == {<<>>, <<" ">>, <<"\t", " ">>}

\* what may follow it: from no further field up to all five
Tails ==
  {<<>>,
   <<" ">>,
   <<" ","w">>,
   <<" ","b"," ","-">>,
   <<" ","w"," ","K","Q"," ","-">>,
   <<" ","w"," ","K","Q"," ","-"," ","0">>,
   <<" ","w"," ","K","Q"," ","-"," ","0"," ","1">>,
   <<" "," ","b","\t","-"," ","-"," ","0"," ","3","0","0"," ">>,
   <<" ","w"," ","-"," ","-"," ","0"," ","x">>}

FenInputs ==
  {<<>>, <<" ">>, fINITIAL}
  \cup {l \o p \o t : l \in Leads, p \in Placements, t \in Tails}

\* before construction: a FEN text is at hand and no board exists
InitFen ==
  /\ fen \in FenInputs
  /\ sq = [i \in 0..119 |-> 0]
  /\ epsq = 0
  /\ wksq = 0
  /\ bksq = 0
  /\ activeMove = cWHITE
  /\ MoveNumber = 0
  /\ lastSAN = <<>>
  /\ MoveWhite = FALSE
  /\ ret = "input"
  /\ hist = <<>>
  /\ pgnIdle

\* the call NewBoardFromFen(fen)
Decode ==
  /\ ret = "input"
  /\ \E r \in {NewBoardFromFen(fen)} :
       /\ sq' = r.sq
       /\ epsq' = r.epsq
       /\ wksq' = r.wksq
       /\ bksq' = r.bksq
       /\ activeMove' = r.activeMove
       /\ MoveNumber' = r.MoveNumber
       /\ ret' = IF r.kind = "ok" THEN "new"
                 ELSE IF r.kind = "error" THEN "fen_error" ELSE "fen_panic"
  /\ UNCHANGED <<lastSAN, MoveWhite, fen, hist, pgnVars>>

NextFen == Decode

SpecFen == InitFen /\ [][NextFen]_vars

(* ------------------------------------------------------ parsing movetext *)

\* the words movetexts are made of
w_1 == <<"1", ".">>
w_e4 == <<"e", "4">>
w_Z9 == <<"Z", "9">>
w_open == <<"(">>
w_close == <<")">>
w_white == <<"1", "-", "0">>
w_nag == <<"$", "1">>
w_comment == <<"{", "c", "}">>

PgnWords == {w_1, w_e4, w_Z9, w_open, w_close, w_white, w_nag, w_comment}

\* the words of ws with one space between them
RECURSIVE JoinWords(_)
JoinWords(ws) ==
  IF ws = <<>> THEN <<>>
  ELSE IF Len(ws) = 1 THEN ws[1]
  ELSE ws[1] \o <<" ">> \o JoinWords(Tail(ws))

\* "5. Nf3 (5. Nc3 Nf6) Nf6"
textRav ==
  <<"5",".","N","f","3"," ","(","5","."," ","N","c","3"," ","N","f","6",")",
    " ","N","f","6">>

\* "1. e4 (d4) e5"
textRavNoNumber ==
  <<"1","."," ","e","4"," ","(","d","4",")"," ","e","5">>

\* "1. e4 Qxf7??"
textSuffix == <<"1","."," ","e","4"," ","Q","x","f","7","?","?">>

\* "Qxf7??"
textSuffixFirst == <<"Q","x","f","7","?","?">>

\* "e4 (d4 (c4 (Z9)))"
textDeepError ==
  <<"e","4"," ","(","d","4"," ","(","c","4"," ","(","Z","9",")",")",")">>

\* "1. e4 e5 (1... c5 2. Nf3 (2. c3 *) d6) 2. Nf3 1/2-1/2 e4"
textNested ==
  <<"1","."," ","e","4"," ","e","5"," ","(","1",".",".","."," ","c","5"," ",
    "2","."," ","N","f","3"," ","(","2","."," ","c","3"," ","*",")"," ","d",
    "6",")"," ","2","."," ","N","f","3"," ","1","/","2","-","1","/","2"," ",
    "e","4">>

\* "0. e4 1. e5"
textZero == <<"0","."," ","e","4"," ","1","."," ","e","5">>

\* "255... e5 0. e4"
textWrap ==
  <<"2","5","5",".",".","."," ","e","5"," ","0","."," ","e","4">>

\* "1. e4 e5 3. Nf3" and "1. e4 1. e5" and "1. e4 -- 2... e5"
textWrongNumber ==
  <<"1","."," ","e","4"," ","e","5"," ","3","."," ","N","f","3">>

textWrongSide == <<"1","."," ","e","4"," ","1","."," ","e","5">>

textNull ==
  <<"1","."," ","e","4"," ","-","-"," ","2",".",".","."," ","e","5">>

\* "e4 ! e5", "e4 [", "e4 \"x", "; c"
textBang == <<"e","4"," ","!"," ","e","5">>

textBracket == <<"e","4"," ","[">>

textOpenString == <<"e","4"," ","\"","x">>

textLineComment == <<";"," ","c","\n","e","4"," ","0","-","1">>

\* "e4 (d4) \"x" and "(e4) d4"
textRavThenString == <<"e","4"," ","(","d","4",")"," ","\"","x">>

textRavFirst == <<"(","e","4",")"," ","d","4">>

NamedTexts ==
  {textRav, textRavNoNumber, textSuffix, textSuffixFirst, textDeepError,
   textNested, textZero, textWrap, textWrongNumber, textWrongSide, textNull,
   textBang, textBracket, textOpenString, textLineComment, textRavThenString,
   textRavFirst}

PgnInputs ==
  NamedTexts
  \cup {JoinWords(ws) : ws \in UNION {[1..n -> PgnWords] : n \in 0..MaxWords}}

\* game.Moves: the variation of the outermost call
Moves == IF calls = <<>> THEN zeroVariation ELSE calls[1].variation

\* the activation that is running
top == calls[Len(calls)]

withTop(f) == [calls EXCEPT ![Len(calls)] = f]

\* the errors generatePlies makes; an error of a nested call reaches the
\* caller of ParseMovesText wrapped in "cannot parse RAV section"
PgnErrors ==
  {"non matched ')'", "non closing RAV", "move number mismatch",
   "move order mismatch", "mismatched SAN", "unexpected token"}

\* a game with its MovesText, ParseMovesText not yet called
InitPgn ==
  /\ MovesText \in PgnInputs
  /\ text = MovesText
  /\ token = [typ |-> pgnEOF, val |-> <<>>]
  /\ calls = <<>>
  /\ ret = "game"
  /\ boardIdle

\* "token = t.next()": the loop goes on with the calls as given
Fetch(newCalls) ==
  \E r \in {next(text)} :
    /\ text' = r.text
    /\ token' = r.token
    /\ calls' = newCalls
    /\ ret' = IF r.panic THEN "panic" ELSE "parsing"

\* "return fmt.Errorf(...)": every enclosing call returns an error in turn
ReturnError(kind) ==
  /\ ret' = kind
  /\ calls' = <<calls[1]>>

\* a nil pointer is dereferenced
Panic ==
  /\ ret' = "panic"
  /\ UNCHANGED calls

\* ParseMovesText up to the first token of the outermost generatePlies
ParseMovesText ==
  /\ ret = "game"
  /\ Fetch(<<frameOf(zeroVariation, FALSE, 1, TRUE)>>)
  /\ UNCHANGED <<MovesText, boardVars>>

\* the nested call returned nil: its caller appends the RAV to its ply
\* (line 464)
attachToCaller(cs) ==
  [SubSeq(cs, 1, Len(cs) - 1) EXCEPT ![Len(cs) - 1].variation =
     attachRav(@, cs[Len(cs)].variation)]

\* case pgnRPAREN; a caller whose ply is nil stops with its RAV closed
RParen ==
  /\ ret = "parsing"
  /\ token.typ = pgnRPAREN
  /\ IF ~top.inRav
     THEN ReturnError("non matched ')'") /\ UNCHANGED <<text, token>>
     ELSE IF plyIsNil(calls[Len(calls) - 1].variation)
     THEN /\ ret' = "panic"
          /\ calls' = withTop([top EXCEPT !.variation = ravClosed(@)])
          /\ UNCHANGED <<text, token>>
     ELSE Fetch(attachToCaller(
                  withTop([top EXCEPT !.variation = ravClosed(@)])))
  /\ UNCHANGED <<MovesText, boardVars>>

\* case pgnRESULT, pgnASTERISK
Result ==
  /\ ret = "parsing"
  /\ token.typ \in {pgnRESULT, pgnASTERISK}
  /\ IF ~top.inRav
     THEN /\ ret' = "parsed"
          /\ calls' = withTop([top EXCEPT !.variation.Result = token.val])
          /\ UNCHANGED <<text, token>>
     ELSE Fetch(withTop([top EXCEPT !.variation.Result = token.val]))
  /\ UNCHANGED <<MovesText, boardVars>>

\* case pgnEOF
Eof ==
  /\ ret = "parsing"
  /\ token.typ = pgnEOF
  /\ IF eofIsError(top)
     THEN ReturnError("non closing RAV")
     ELSE /\ ret' = "parsed"
          /\ calls' = withTop([top EXCEPT !.variation.Result = <<"*">>])
  /\ UNCHANGED <<text, token, MovesText, boardVars>>

\* case pgnINTEGER; the token after the periods is at hand when it ends
Integer ==
  /\ ret = "parsing"
  /\ token.typ = pgnINTEGER
  /\ \E r \in {periodsFrom(next(text), 0)} :
       \E c \in {numberCase(top, Atoi(token.val).n % Uint8Mod, r.i = 1)} :
         /\ text' = r.text
         /\ token' = r.token
         /\ IF r.panic THEN Panic
            ELSE IF c.kind # "" THEN ReturnError(c.kind)
            ELSE ret' = "parsing" /\ calls' = withTop(c.f)
  /\ UNCHANGED <<MovesText, boardVars>>

\* case pgnSYMBOL, pgnIDENTIFIER
Move ==
  /\ ret = "parsing"
  /\ token.typ \in {pgnSYMBOL, pgnIDENTIFIER}
  /\ \E c \in {moveCase(top, token.val)} :
       IF c.kind = "panic" THEN Panic /\ UNCHANGED <<text, token>>
       ELSE IF c.kind # "" THEN ReturnError(c.kind) /\ UNCHANGED <<text, token>>
       ELSE Fetch(withTop(c.f))
  /\ UNCHANGED <<MovesText, boardVars>>

\* case pgnNAG
Nag ==
  /\ ret = "parsing"
  /\ token.typ = pgnNAG
  /\ \E c \in {nagCase(top, token.val)} :
       IF c.kind = "panic" THEN Panic /\ UNCHANGED <<text, token>>
       ELSE Fetch(withTop(c.f))
  /\ UNCHANGED <<MovesText, boardVars>>

\* case pgnCOMMENT
Comment ==
  /\ ret = "parsing"
  /\ token.typ = pgnCOMMENT
  /\ Fetch(withTop([top EXCEPT !.variation = addComment(@, token.val)]))
  /\ UNCHANGED <<MovesText, boardVars>>

\* case pgnLPAREN up to the first token of the nested generatePlies
LParen ==
  /\ ret = "parsing"
  /\ token.typ = pgnLPAREN
  /\ Fetch(Append(calls, frameOf(zeroVariation, TRUE, top.thisMoveNumber,
                                 top.thisPlyWhite)))
  /\ UNCHANGED <<MovesText, boardVars>>

\* default
Unexpected ==
  /\ ret = "parsing"
  /\ token.typ \in {pgnPERIOD, pgnLBRACKET, pgnRBRACKET, pgnLANGLE, pgnRANGLE,
                    pgnSTRING, pgnTOKEN}
  /\ ReturnError("unexpected token")
  /\ UNCHANGED <<text, token, MovesText, boardVars>>

NextPgn ==
  \/ ParseMovesText
  \/ RParen
  \/ Result
  \/ Eof
  \/ Integer
  \/ Move
  \/ Nag
  \/ Comment
  \/ LParen
  \/ Unexpected

SpecPgn == InitPgn /\ [][NextPgn]_vars

(* ----------------------------------------------- the tokenizer on its own *)

\* "[Event \"a\\\"b\"]", with an escaped quote inside the string
textTag ==
  <<"[","E","v","e","n","t"," ","\"","a","\\","\"","b","\"","]">>

\* "e4 \"ab", "\"a\\", "{ c", "; c"
textStringOpen == <<"e","4"," ","\"","a","b">>

textStringBackslash == <<"\"","a","\\">>

textCommentOpen == <<"{"," ","c">>

textLineOpen == <<";"," ","c">>

\* "$ <$12>", "e4? d5", "1/2", "a,b", "  "
textNags == <<"$"," ","<","$","1","2",">">>

textQuery == <<"e","4","?"," ","d","5">>

textSlash == <<"1","/","2">>

textComma == <<"a",",","b">>

textBlank == <<" ","\t">>

TokInputs ==
  PgnInputs
  \cup {textTag, textStringOpen, textStringBackslash, textCommentOpen,
        textLineOpen, textNags, textQuery, textSlash, textComma, textBlank}

\* a tokenizer made of a text, next() not yet called
InitTok ==
  /\ MovesText \in TokInputs
  /\ text = MovesText
  /\ token = [typ |-> pgnEOF, val |-> <<>>]
  /\ calls = <<>>
  /\ ret = "tokenizer"
  /\ boardIdle

\* one call of next(), made as long as no call returned pgnEOF
NextToken ==
  /\ ret \in {"tokenizer", "token"}
  /\ \E r \in {next(text)} :
       /\ text' = r.text
       /\ token' = r.token
       /\ ret' = IF r.panic THEN "panic"
                 ELSE IF r.token.typ = pgnEOF THEN "eof" ELSE "token"
  /\ UNCHANGED <<MovesText, calls, boardVars>>

NextTok == NextToken

SpecTok == InitTok /\ [][NextTok]_vars

(* ------------------------------------------- games from the initial board *)

\* the SAN texts offered to MakeMove on the initial position: knights and
\* pawns that make room, rook and king moves there and back, castling
CastleSANs ==
  {<<"N","f","3">>, <<"N","f","6">>, <<"N","c","3">>, <<"R","g","1">>,
   <<"R","h","1">>, <<"R","g","8">>, <<"R","b","1">>, <<"e","4">>,
   <<"K","e","2">>, <<"K","e","1">>, <<"-","-">>, <<"O","-","O">>,
   <<"N","g","4">>, <<"N","h","2">>, <<"N","x","h","1">>}

\* NewBoard(): the board of the standard starting position
InitCastle == Init /\ fen = fINITIAL

NextCastle == \E san \in CastleSANs : MakeMove(san)

SpecCastle == InitCastle /\ [][NextCastle]_vars

(* ================================================================ claims *)

san_e4 == <<"e", "4">>
san_e5 == <<"e", "5">>
san_Nc3 == <<"N", "c", "3">>

MoveErrors == {"invalid", "count", "attacked"}

\* the step is a MakeMove call that returned an error
FailedCall == ret' \in MoveErrors /\ hist' = hist

\* the step is a MakeMove call that returned nil
SuccessfulCall == ret' = "ok" /\ hist' # hist

OrdinarySAN(san) ==
  san # sanNull /\ ~HasPrefix(san, sanCastleShort)

isKing(p, col) ==
  p # OFFBOARD /\ identify(p).typ = pKING /\ identify(p).col = col

isPawn(p, col) ==
  p # OFFBOARD /\ identify(p).typ = pPAWN /\ identify(p).col = col

(* ------------------------------------------------------------------- C1 *)

\* C1: a MakeMove call that returns an error leaves the board exactly as it
\* was before the call: all squares, the en-passant target, both tracked
\* king squares, the active colour, the move number and the last SAN.
C1_FailedMoveChangesNothing ==
  [][FailedCall =>
       UNCHANGED <<sq, epsq, wksq, bksq, activeMove, MoveNumber, lastSAN>>]_vars

(* ------------------------------------------------------------------- C2 *)

\* C2: a trial call tryMove(true, ...) leaves every square, the en-passant
\* target and both tracked king squares as they were, whether it succeeds
\* or fails.
C2_TrialRestoresBoard ==
  [][ret' \in TrialRets => UNCHANGED <<sq, epsq, wksq, bksq>>]_vars

(* ------------------------------------------------------------------- C3 *)

\* C3: a successful MakeMove flips the active colour, adds one to the move
\* number exactly when black moved, records the SAN, and LastMove then
\* reports that SAN, side and number; a failed call changes none of them.
C3_TurnBookkeeping ==
  [][/\ (SuccessfulCall =>
           (/\ activeMove' = opposite(activeMove)
            /\ MoveNumber' = MoveNumber + (IF activeMove = cBLACK THEN 1 ELSE 0)
            /\ lastSAN' = hist'[Len(hist')]
            /\ LastMove' = [san |-> lastSAN',
                            white |-> activeMove = cWHITE,
                            number |-> MoveNumber]))
      /\ (FailedCall => UNCHANGED <<activeMove, MoveNumber, lastSAN>>)]_vars

(* ------------------------------------------------------------------- C4 *)

\* from the initial position e4 succeeds, and after it e5 succeeds
OpeningSucceeds ==
  /\ (fen = fINITIAL /\ hist = <<>>)
       => makeMoveFor(Board, san_e4, activeMove).err = ""
  /\ (fen = fINITIAL /\ hist = <<san_e4>>)
       => makeMoveFor(Board, san_e5, activeMove).err = ""

\* the fourth field of Fen(): the en-passant target
fenEnPassantField == Fields(Fen(Board))[4]

\* C4 as stated: from the initial position e4 then e5 both succeed and the
\* en-passant target is then absent, Fen showing "-".
C4_NoTargetAfterReply ==
  /\ OpeningSucceeds
  /\ (fen = fINITIAL /\ hist = <<san_e4, san_e5>>)
       => (epsq = 0 /\ fenEnPassantField = <<"-">>)

\* C4 amended: from the initial position e4 then e5 both succeed and the
\* en-passant target is then e6, the square the black pawn passed over, and
\* Fen shows e6.
C4_TargetAfterReply ==
  /\ OpeningSucceeds
  /\ (fen = fINITIAL /\ hist = <<san_e4, san_e5>>)
       => (epsq = 75 /\ fenEnPassantField = <<"e", "6">>)

C4_Witness ==
  fen = fINITIAL /\ hist = <<san_e4, san_e5>> /\ ret = "ok" /\ epsq = 75

(* ------------------------------------------------------------------- C5 *)

\* the ply of this step took the unmoved pawn on csq two squares ahead
TwoSquareAdvance(csq, step) ==
  /\ isPawn(sq[csq], activeMove)
  /\ ~hasMoved(sq[csq])
  /\ OrdinarySAN(lastSAN')
  /\ sq'[csq] = 0
  /\ sq'[csq + 2 * step] # sq[csq + 2 * step]
  /\ sq'[csq + 2 * step] # OFFBOARD
  /\ sq'[csq + 2 * step] # 0
  /\ identify(sq'[csq + 2 * step]).col = activeMove

\* C5: after a successful MakeMove the en-passant target is set exactly when
\* the ply was a two-square advance of an unmoved pawn, and is then the
\* square passed over; every other ply, the null move included, leaves it
\* cleared.
C5_EnPassantLifetime ==
  [][SuccessfulCall =>
       \E step \in {IF activeMove = cWHITE THEN 10 ELSE -10} :
         IF \E csq \in 31..88 : TwoSquareAdvance(csq, step)
         THEN \E csq \in 31..88 :
                TwoSquareAdvance(csq, step) /\ epsq' = csq + step
         ELSE epsq' = 0]_vars

(* ------------------------------------------------------------------- C6 *)

\* C6: the board holds exactly one king of each colour, on the tracked
\* king squares.
C6_OneKingEach ==
  /\ Cardinality({i \in 21..98 : isKing(sq[i], cWHITE)}) = 1
  /\ Cardinality({i \in 21..98 : isKing(sq[i], cBLACK)}) = 1
  /\ isKing(sq[wksq], cWHITE)
  /\ isKing(sq[bksq], cBLACK)

(* ------------------------------------------------------------------- C7 *)

\* C7: after a successful MakeMove that is neither castling nor the null
\* move, the tracked king of the side that just moved has no attacker of
\* the opposite colour.
C7_KingSafe ==
  (ret = "ok" /\ OrdinarySAN(lastSAN))
    => attackersOf(sq, IF activeMove = cBLACK THEN wksq ELSE bksq,
                   activeMove) = <<>>

\* Nc3 was played with the knight from b1: the knight on e2, pinned by the
\* rook on e8, could reach c3 too and was discarded by its trial
C7_Witness ==
  /\ fen = fenKnights /\ hist = <<san_Nc3>> /\ ret = "ok"
  /\ sq[35] = newPiece(cWHITE, pKNIGHT, FALSE)
  /\ sq[22] = 0
  /\ sq[43] = newPiece(cWHITE, pKNIGHT, TRUE)

(* ------------------------------------------------------------------- C8 *)

\* the destination, piece type, origin hint and promotion an ordinary SAN
\* asks for
sanTosq(san) == string2sq(FindStringSubmatch(san)[3])
sanTyp(san) == sanPieceTyp(FindStringSubmatch(san))
sanHint(san) == sanFromHint(FindStringSubmatch(san))
sanPromotes(san) == FindStringSubmatch(san)[4]

\* the pieces of the active colour that can move to the destination of san,
\* have the requested type and whose trial move leaves their king unattacked
AbleToReach(san) ==
  {c \in 21..98 :
     /\ sq[c] # OFFBOARD /\ sq[c] # 0
     /\ identify(sq[c]).col = activeMove
     /\ c \in Range(piecesMovableTo(sq, sanTosq(san), activeMove))
     /\ identify(sq[c]).typ = sanTyp(san)
     /\ ~kingAttacked(applyMove(Board, activeMove, c, sanTosq(san),
                                sanPromotes(san)), activeMove)}

\* those of them whose square text contains the origin hint
Survivors(san) ==
  {c \in AbleToReach(san) :
     sanHint(san) = <<>> \/ Contains(sq2string(c), sanHint(san))}

\* the written SAN carries no origin hint
NoHint(san) == FindStringSubmatch(san)[2] = <<>>

\* C8, first sentence: an ordinary SAN succeeds exactly when one piece of
\* the active colour passes all filters.
C8_SucceedsIffOneSurvivor ==
  [][\A san \in SANs :
       (OrdinarySAN(san) /\ MakeMove(san)) =>
         (ret' = "ok" <=>
            (FindStringSubmatch(san) # <<>> /\ Cardinality(Survivors(san)) = 1))]_vars

\* C8, last sentence: two same-type pieces can reach the square and the hint
\* matches exactly one of them: the call succeeds, that piece stands on the
\* destination and the others stay where they were.
C8_HintSelects ==
  [][\A san \in SANs :
       (/\ OrdinarySAN(san) /\ MakeMove(san)
        /\ FindStringSubmatch(san) # <<>>
        /\ ~NoHint(san)
        /\ Cardinality(AbleToReach(san)) >= 2
        /\ Cardinality(Survivors(san)) = 1) =>
         \A c \in Survivors(san) :
           /\ ret' = "ok"
           /\ sq'[c] = 0
           /\ sq'[sanTosq(san)] = markedMoved(sq[c])
           /\ \A o \in AbleToReach(san) \ {c} : sq'[o] = sq[o]]_vars

\* C8, middle sentence: two same-type pieces can reach the square and the
\* SAN has no hint: the call fails and the board is as it was.
C8_AmbiguousMovesNothing ==
  [][\A san \in SANs :
       (/\ OrdinarySAN(san) /\ MakeMove(san)
        /\ FindStringSubmatch(san) # <<>>
        /\ NoHint(san)
        /\ Cardinality(AbleToReach(san)) >= 2) =>
         (ret' \in MoveErrors /\ UNCHANGED <<sq, epsq, wksq, bksq>>)]_vars

\* C8: MakeMove of an ordinary SAN succeeds iff exactly one piece passes all
\* filters; with two same-type pieces able to reach the square and no hint
\* it fails and moves nothing; with a hint matching exactly one of them it
\* succeeds, moves that piece and leaves the other where it was.
C8_Disambiguation ==
  [][\A san \in SANs :
       (/\ OrdinarySAN(san) /\ MakeMove(san)
        /\ FindStringSubmatch(san) # <<>>) =>
         /\ ret' = "ok" <=> Cardinality(Survivors(san)) = 1
         /\ (NoHint(san) /\ Cardinality(AbleToReach(san)) >= 2) =>
              (ret' \in MoveErrors /\ UNCHANGED <<sq, epsq, wksq, bksq>>)
         /\ (~NoHint(san) /\ Cardinality(AbleToReach(san)) >= 2
               /\ Cardinality(Survivors(san)) = 1) =>
              \A c \in Survivors(san) :
                /\ sq'[c] = 0
                /\ sq'[sanTosq(san)] = markedMoved(sq[c])
                /\ \A o \in AbleToReach(san) \ {c} : sq'[o] = sq[o]]_vars

(* ------------------------------------------------------------------- C9 *)

\* C9: NewBoardFromFen returns the format error, and fails in no other way,
\* for every text with fewer fields than the full-move number's, the last
\* one it reads.
C9_ShortFenIsFormatError ==
  (ret # "input" /\ Len(Fields(fen)) < 6) => ret = "fen_error"

(* ------------------------------------------------------------------ C10 *)

\* the squares a rank text stands for, "1" for each empty square; a rank
\* written as empty text is eight empty squares
RECURSIVE expandRank(_)
expandRank(rank) ==
  IF rank = <<>> THEN <<>>
  ELSE (IF Head(rank) \in Range(Ranks)
        THEN Repeat("1", IndexOf(Ranks, Head(rank)) + 1)
        ELSE <<Head(rank)>>)
       \o expandRank(Tail(rank))

rankSquares(rank) == IF rank = <<>> THEN Repeat("1", 8) ELSE expandRank(rank)

\* the same squares with every run of empty squares written as one digit
RECURSIVE packRank(_, _)
packRank(squares, run) ==
  IF squares = <<>>
  THEN IF run > 0 THEN <<Digits[run + 1]>> ELSE <<>>
  ELSE IF Head(squares) = "1"
       THEN packRank(Tail(squares), run + 1)
       ELSE (IF run > 0 THEN <<Digits[run + 1]>> ELSE <<>>)
            \o <<Head(squares)>> \o packRank(Tail(squares), 0)

RECURSIVE joinRanks(_)
joinRanks(ranks) ==
  IF Len(ranks) = 1 THEN Head(ranks)
  ELSE Head(ranks) \o <<"/">> \o joinRanks(Tail(ranks))

\* a valid placement field: eight ranks of piece letters and digits 1..8,
\* each standing for eight squares
ValidPlacement(x) ==
  /\ Len(Split(x, "/")) = 8
  /\ \A r \in 1..8 :
       /\ Range(Split(x, "/")[r])
            \subseteq (Range(PieceLetters) \cup (Range(BlackLetters) \ {"_"})
                       \cup Range(Ranks))
       /\ Len(rankSquares(Split(x, "/")[r])) = 8

normalize(x) ==
  joinRanks([r \in 1..8 |-> packRank(rankSquares(Split(x, "/")[r]), 0)])

\* C10: for a valid placement field x, however surrounded by white space,
\* the placement field of Fen(NewBoardFromFen(x ...)) is x normalised.
C10_PlacementRoundTrip ==
  (ret = "new" /\ ValidPlacement(Fields(fen)[1]))
    => Fields(Fen(Board))[1] = normalize(Fields(fen)[1])

\* the built-in initial position, its four empty ranks written as empty
\* text, decoded and encoded again
C10_Witness ==
  /\ ret = "new" /\ hist = <<>> /\ fen = fINITIAL
  /\ ValidPlacement(Fields(fen)[1])
  /\ Fields(fen)[1] # normalize(Fields(fen)[1])
  /\ Fields(Fen(Board))[1] =
       <<"r","n","b","q","k","b","n","r","/","p","p","p","p","p","p","p","p",
         "/","8","/","8","/","8","/","8","/","P","P","P","P","P","P","P","P",
         "/","R","N","B","Q","K","B","N","R">>

(* ------------------------------------------------- claims on the parser *)

\* ParseMovesText has returned or stopped
parseEnded == ret \notin {"game", "parsing"}

\* the SAN texts of the plies of a variation, in order
sansOf(v) == [i \in 1..Len(v.Plies) |-> v.Plies[i].SAN]

san_Nf3 == <<"N", "f", "3">>
san_Nf6 == <<"N", "f", "6">>
san_Qxf7 == <<"Q", "x", "f", "7">>

\* the tree "5. Nf3 (5. Nc3 Nf6) Nf6" stands for
ravExampleTree(v) ==
  /\ sansOf(v) = <<san_Nf3, san_Nf6>>
  /\ Len(v.Plies[1].Variations) = 1
  /\ sansOf(v.Plies[1].Variations[1]) = <<san_Nc3, san_Nf6>>
  /\ v.Plies[2].Variations = <<>>

\* a step in which the running call, a RAV, returned nil and its caller,
\* having a ply, went on
ravReturned ==
  /\ ret = "parsing"
  /\ token.typ = pgnRPAREN
  /\ Len(calls') = Len(calls) - 1

\* the caller of the running call has the RAV, closed, as the new last
\* alternative of its last ply and is otherwise as before
ravAttached(caller, caller2, rav) ==
  /\ caller.variation.Plies # <<>>
  /\ Len(caller2.variation.Plies) = Len(caller.variation.Plies)
  /\ \A i \in 1..(Len(caller.variation.Plies) - 1) :
       caller2.variation.Plies[i] = caller.variation.Plies[i]
  /\ caller2.variation.Plies[Len(caller.variation.Plies)].Variations =
       Append(caller.variation.Plies[Len(caller.variation.Plies)].Variations,
              [MoveNumber |-> rav.MoveNumber, WhiteMove |-> rav.WhiteMove,
               Plies |-> rav.Plies, Result |-> <<"*">>,
               Comment |-> rav.Comment])
  /\ caller2.variation.Plies[Len(caller.variation.Plies)] =
       [caller.variation.Plies[Len(caller.variation.Plies)]
          EXCEPT !.Variations =
            caller2.variation.Plies[Len(caller.variation.Plies)].Variations]
  /\ caller2 = [caller EXCEPT !.variation.Plies = caller2.variation.Plies]

\* the alternatives of the plies a call already has stay as they are
alternativesKept(f, f2) ==
  /\ Len(f2.variation.Plies) >= Len(f.variation.Plies)
  /\ \A i \in 1..Len(f.variation.Plies) :
       f2.variation.Plies[i].Variations = f.variation.Plies[i].Variations

C12_SuffixAnnotatesItsPly ==
  (MovesText = textSuffix /\ parseEnded)
    => /\ ret = "parsed"
       /\ Len(Moves.Plies) = 2
       /\ Moves.Plies[2].SAN = san_Qxf7
       /\ 4 \in Range(Moves.Plies[2].Nags)

\* C13: when the token at hand is "Z9", at any depth, the step makes
\* ParseMovesText return the SAN error without a further token being read;
\* and once an error is returned nothing more happens.
C13_BadMoveFailsAtAnyDepth ==
  [][/\ (ret = "parsing" /\ token.val = w_Z9)
        => (ret' = "mismatched SAN" /\ text' = text /\ token' = token)
     /\ ret \in PgnErrors => FALSE]_vars

C13_Witness ==
  /\ MovesText = textDeepError
  /\ ret = "mismatched SAN"
  /\ text = <<")", ")", ")">>

\* C14: when ParseMovesText returns an error, game.Moves is the zero
\* Variation it was before the call.
C14_NoPartialTree == ret \in PgnErrors => Moves = zeroVariation

\* the kinds of the tokens next() gives on txt until no more than left
\* characters remain
RECURSIVE consumedFrom(_, _)
consumedAfter(r, txt, left) ==
  IF r.panic \/ Len(r.text) >= Len(txt) THEN <<>>
  ELSE <<r.token.typ>> \o consumedFrom(r.text, left)

consumedFrom(txt, left) ==
  IF Len(txt) <= left THEN <<>> ELSE consumedAfter(next(txt), txt, left)

\* every '(' of the kinds has its ')' and no ')' comes before its '('
RECURSIVE balanced(_, _)
balanced(typs, depth) ==
  IF typs = <<>> THEN depth = 0
  ELSE IF Head(typs) = pgnLPAREN THEN balanced(Tail(typs), depth + 1)
  ELSE IF Head(typs) = pgnRPAREN
  THEN depth > 0 /\ balanced(Tail(typs), depth - 1)
  ELSE balanced(Tail(typs), depth)

\* the variation v with the result "*"
starred(v) ==
  [MoveNumber |-> v.MoveNumber, WhiteMove |-> v.WhiteMove, Plies |-> v.Plies,
   Result |-> <<"*">>, Comment |-> v.Comment]

\* the last alternative of the last ply of a variation
lastAlternative(v) ==
  v.Plies[Len(v.Plies)].Variations[Len(v.Plies[Len(v.Plies)].Variations)]

\* the RAV of the running call after a step that read its ')': attached by
\* the caller, or still the caller's local when the caller stopped at the
\* append
ravAfterClose ==
  IF Len(calls') = Len(calls)
  THEN calls'[Len(calls)].variation
  ELSE lastAlternative(calls'[Len(calls) - 1].variation)

\* C15: a ')' at the outermost level makes the parse fail; the end of input
\* inside a RAV makes the parse fail; a ')' inside a RAV ends that RAV, and
\* no other, with nil and the result "*"; when ParseMovesText succeeds, the
\* parentheses among the tokens consumed are balanced.
C15_ParenthesisDiscipline ==
  [][/\ (ret = "parsing" /\ token.typ = pgnRPAREN /\ Len(calls) = 1)
        => (ret' = "non matched ')'" /\ text' = text)
     /\ (ret = "parsing" /\ token.typ = pgnEOF /\ Len(calls) > 1)
        => ret' = "non closing RAV"
     /\ (ret = "parsing" /\ token.typ = pgnRPAREN /\ Len(calls) > 1)
        => /\ ret' \notin PgnErrors
           /\ Len(calls') \in {Len(calls), Len(calls) - 1}
           /\ ravAfterClose = starred(top.variation)
           /\ \A j \in 1..(Len(calls) - 2) : calls'[j] = calls[j]
     /\ ret' = "parsed"
        => /\ Len(calls') = 1
           /\ balanced(consumedFrom(MovesText, Len(text')), 0)]_vars

C15_Witness ==
  /\ MovesText = textNested
  /\ ret = "parsed"
  /\ Cardinality({i \in 1..Len(MovesText) : MovesText[i] = "("}) = 2
  /\ balanced(consumedFrom(MovesText, Len(text)), 0)

\* the texts Variation.Result may hold
ResultTexts == {whiteWins, blackWins, drawRes, <<"*">>}

\* every variation of the tree under v has a result text
RECURSIVE resultsSet(_)
resultsSet(v) ==
  /\ v.Result \in ResultTexts
  /\ \A i \in 1..Len(v.Plies) :
       \A j \in 1..Len(v.Plies[i].Variations) :
         resultsSet(v.Plies[i].Variations[j])

\* C16: a result token or an asterisk at depth zero becomes the Result of
\* the main variation and ends the parse at once with success, no further
\* token being read; the end of input at depth zero ends it with success
\* and Result "*"; after success nothing more is read and every variation
\* of the tree has one of the four result texts.
C16_ResultEndsOutermost ==
  [][/\ (ret = "parsing" /\ Len(calls) = 1
           /\ token.typ \in {pgnRESULT, pgnASTERISK})
        => /\ ret' = "parsed"
           /\ Moves'.Result = token.val
           /\ Moves' = [Moves EXCEPT !.Result = token.val]
           /\ text' = text
     /\ (ret = "parsing" /\ Len(calls) = 1 /\ token.typ = pgnEOF)
        => /\ ret' = "parsed"
           /\ Moves' = [Moves EXCEPT !.Result = <<"*">>]
     /\ ret = "parsed" => FALSE
     /\ ret' = "parsed" => resultsSet(Moves')]_vars

C16_Witness ==
  /\ MovesText = textNested
  /\ ret = "parsed"
  /\ Moves.Result = drawRes
  /\ text = <<" ", "e", "4">>
  /\ Moves.Plies[2].Variations[1].Result = <<"*">>

\* C17: once a call has a ply its variation's start number and side stay as
\* they are; an accepted ply flips the running side and adds one to the
\* running number exactly after a black ply; a move-number indication read
\* once the variation has a ply is accepted only if it equals the running
\* number and side.
C17_MoveNumberBookkeeping ==
  [][(ret = "parsing" /\ ret' = "parsing" /\ Len(calls') >= Len(calls)
        /\ top.variation.Plies # <<>>)
       => /\ calls'[Len(calls)].variation.MoveNumber
               = top.variation.MoveNumber
          /\ calls'[Len(calls)].variation.WhiteMove = top.variation.WhiteMove
          /\ token.typ = pgnINTEGER
               => /\ calls'[Len(calls)].thisMoveNumber = top.thisMoveNumber
                  /\ calls'[Len(calls)].thisPlyWhite = top.thisPlyWhite
          /\ token.typ \in {pgnSYMBOL, pgnIDENTIFIER}
               => /\ calls'[Len(calls)].thisPlyWhite = ~top.thisPlyWhite
                  /\ calls'[Len(calls)].thisMoveNumber =
                       IF top.thisPlyWhite THEN top.thisMoveNumber
                       ELSE top.thisMoveNumber + 1]_vars

\* C19: a RAV opened after a ply p starts with the number and side that
\* were expected for p, the ply it replaces; "1. e4 (d4) e5" gives a RAV
\* that starts at move 1 with white to move.
C19_RavStartsAtReplacedPly ==
  [][/\ (ret = "parsing" /\ token.typ = pgnLPAREN /\ ret' = "parsing"
           /\ top.variation.Plies # <<>>)
        => /\ calls'[Len(calls')].thisPlyWhite = ~top.thisPlyWhite
           /\ calls'[Len(calls')].thisMoveNumber =
                IF top.thisPlyWhite THEN top.thisMoveNumber - 1
                ELSE top.thisMoveNumber
     /\ (MovesText = textRavNoNumber /\ ret' = "parsed")
        => /\ lastAlternative(Moves').MoveNumber = 1
           /\ lastAlternative(Moves').WhiteMove = TRUE]_vars

\* the text holds a character next() does not skip
holdsToken(txt) == \E i \in 1..Len(txt) : txt[i] \notin pgnSpaces

\* C18: a call of next() on a text that holds a non-space character returns
\* a token and leaves a shorter text, and a token of the unknown kind is
\* one character long.
C18_TokenizerProgress ==
  [][(ret \in {"tokenizer", "token"} /\ holdsToken(text))
       => /\ ret' = "token"
          /\ Len(text') < Len(text)
          /\ token'.typ = pgnTOKEN => Len(token'.val) = 1]_vars

(* --------------------------------------------------- claims on castling *)

\* the third field of Fen(): the castling availability
fenCastlingField == Fields(Fen(Board))[3]

\* the square holds a piece of the colour and type that has never moved
unmovedAt(s, col, typ) ==
  /\ sq[s] # 0
  /\ identify(sq[s]) = [col |-> col, typ |-> typ]
  /\ ~hasMoved(sq[s])

\* the corners: letter, colour, the king's home square, the rook's corner
Corners ==
  {<<"K", cWHITE, 25, 28>>, <<"Q", cWHITE, 25, 21>>,
   <<"k", cBLACK, 95, 98>>, <<"q", cBLACK, 95, 91>>}

\* C20: in a game from the initial position Fen lists the letter of a
\* corner only if the king of that colour stands on its home square and has
\* never moved and the rook of that corner stands on the corner and has
\* never moved; so the letter is absent once that rook has left the corner.
C20_CastlingFollowsMovedFlags ==
  \A c \in Corners :
    c[1] \in Range(fenCastlingField)
      => (unmovedAt(c[3], c[2], pKING) /\ unmovedAt(c[4], c[2], pROOK))

(* ------------------------------------------------ claims on pawn pushes *)

\* from the target square to the square directly behind it, for a pawn of
\* the colour
behind(col) == IF col = cBLACK THEN 10 ELSE -10

\* the squares piecesMovableTo adds to the attackers of s are origins of a
\* legal push: the target is empty and the origin holds a pawn of the
\* colour, directly behind, or two ranks behind, unmoved, with the square
\* between empty
pushesAreLegal(s, col) ==
  \A from \in Range(pawnPushes(sq, s, col)) :
    /\ sq[s] = 0
    /\ isPawn(sq[from], col)
    /\ \/ from = s + behind(col)
       \/ /\ from = s + 2 * behind(col)
          /\ ~hasMoved(sq[from])
          /\ sq[s + behind(col)] = 0

\* the step moved a pawn of the active colour from c along its file
pawnWentStraight(c) ==
  /\ SuccessfulCall
  /\ OrdinarySAN(lastSAN')
  /\ isPawn(sq[c], activeMove)
  /\ sq'[c] = 0
  /\ sanTosq(lastSAN') % 10 = c % 10

\* C21: the squares piecesMovableTo adds besides the attackers are the
\* square directly behind, only if it holds a pawn of the colour and the
\* target is empty, and the square two ranks behind, only if it holds an
\* unmoved pawn of the colour and the square between and the target are
\* empty; and a successful MakeMove never moves a pawn straight forward onto
\* an occupied square.
C21_PawnPushGeometry ==
  [][/\ \A s \in 21..98 : \A col \in {cWHITE, cBLACK} :
          sq[s] # OFFBOARD => pushesAreLegal(s, col)
     /\ \A c \in 21..98 :
          pawnWentStraight(c) => sq[sanTosq(lastSAN')] = 0]_vars

(* ------------------------------- claims on unterminated strings, comments *)

\* the text without the characters next() skips first
afterSpaces(txt) == Drop(txt, span(txt, 0, pgnSpaces))

\* txt holds, from 1-based position i on, a double quote that no backslash
\* escapes
RECURSIVE closingQuoteFrom(_, _)
closingQuoteFrom(txt, i) ==
  IF i > Len(txt) THEN FALSE
  ELSE IF txt[i] = "\\" THEN closingQuoteFrom(txt, i + 2)
  ELSE txt[i] = "\"" \/ closingQuoteFrom(txt, i + 1)

\* txt starts with a string that is not closed
openString(txt) ==
  /\ txt # <<>>
  /\ txt[1] = "\""
  /\ ~closingQuoteFrom(txt, 2)

\* txt starts with a comment that is not closed
openComment(txt) ==
  /\ txt # <<>>
  /\ \/ txt[1] = "{" /\ "}" \notin Range(txt)
     \/ txt[1] = ";" /\ "\n" \notin Range(txt)

\* the call of next() returned a token of the kind that holds all that
\* followed the opening character and left no text, so that the next call
\* gives pgnEOF
ranToEnd(typ, txt) ==
  /\ ret' = "token"
  /\ token' = [typ |-> typ, val |-> Tail(txt)]
  /\ text' = <<>>
  /\ next(text').token.typ = pgnEOF

\* C22: on a text that starts with a string without an unescaped closing
\* quote, also one that ends with a backslash, next() returns a string token
\* holding the rest of the input and leaves no input, so that the following
\* call returns pgnEOF; the same holds, with a comment token, for a comment
\* that is not closed.
C22_UnterminatedRunsToEnd ==
  [][/\ (ret \in {"tokenizer", "token"} /\ openString(afterSpaces(text)))
          => ranToEnd(pgnSTRING, afterSpaces(text))
     /\ (ret \in {"tokenizer", "token"} /\ openComment(afterSpaces(text)))
          => ranToEnd(pgnCOMMENT, afterSpaces(text))]_vars

(* ------------------------------------------ claims on the parser's totality *)

\* what a call of ParseMovesText that has not returned yet, or has returned
\* nil or an error, looks like
normalOutcomes == {"parsing", "parsed"} \cup PgnErrors

\* the token about to be handled is a NAG or a '(' and the variation being
\* parsed has no ply yet
beforeAnyPly ==
  /\ ret = "parsing"
  /\ token.typ \in {pgnNAG, pgnLPAREN}
  /\ plyIsNil(top.variation)

\* the nested call for a RAV is about to return nil, at its ')', to a caller
\* whose variation has no ply
ravReturnsBeforeAnyPly ==
  /\ ret = "parsing"
  /\ Len(calls) > 1
  /\ token.typ = pgnRPAREN
  /\ plyIsNil(calls[Len(calls) - 1].variation)

\* C23: ParseMovesText is total: every step of a parse either goes on
\* parsing or returns nil or an error value, and never stops the program
\* abnormally; this holds in particular for the step that handles a NAG or a
\* '(' read before the variation has a ply, and for the return of the RAV
\* that such a '(' opened.
C23_ParserTotal ==
  [][/\ ret = "parsing" => ret' \in normalOutcomes
     /\ beforeAnyPly => ret' \in normalOutcomes
     /\ ravReturnsBeforeAnyPly => ret' \in normalOutcomes]_vars

====
